---- MODULE Spec2Model ----
(***************************************************************************)
(* EcsService (phidata/infra/aws/resource/ecs/service.py): the declared    *)
(* fields of one service descriptor, the cached observed state             *)
(* (active_resource) and the four lifecycle operations _create, _read,     *)
(* _delete and _update, each with the request it sends to the ECS client   *)
(* and what it does with the client's answer.                              *)
(*                                                                         *)
(* Python values are records with an "isa" field, so that None, strings,   *)
(* objects and dicts can be compared with one another.                     *)
(***************************************************************************)
EXTENDS Integers, Sequences, FiniteSets, TLC

VARIABLES
    self,             \* the EcsService descriptor (its declared fields)
    active_resource,  \* the cached observed state
    op,               \* the operation that ran last ("init" before any)
    request,          \* keyword arguments of the remote call it issued
    script,           \* what the remote would answer to successive calls
    response,         \* what the remote call returned (None if it raised)
    result,           \* the value the operation returned
    attempts,         \* remote calls the operation issued
    before,           \* active_resource when the operation was called
    printed           \* whether the operation called print_error

vars == <<self, active_resource, op, request, script, response, result,
          attempts, before, printed>>

----------------------------------------------------------------------------
(* Bounds of the model *)

\* at most this many services in a describe_services response
MaxServices == 2
\* longest run of Throttled answers the remote gives before it succeeds
MaxThrottles == 3

----------------------------------------------------------------------------
(* Python values *)

None == [isa |-> "NoneType", val |-> "None"]
Str(s) == [isa |-> "str", val |-> s]
IntVal(s) == [isa |-> "int", val |-> s]
Obj(class, n) == [isa |-> class, val |-> n]
EmptyDict == [isa |-> "dict"]

\* Python truthiness of None, a str or an int
Truthy(v) == v # None /\ v.val # "" /\ v # IntVal("0")

NoKwargs == [k \in {} |-> None]

----------------------------------------------------------------------------
(* The descriptor *)

\* the optional fields _create copies into not_null_args, in source order
CreateFields ==
    { "load_balancers", "service_registries", "desired_count", "client_token",
      "launch_type", "capacity_provider_strategy", "platform_version", "role",
      "deployment_configuration", "placement_constraints",
      "placement_strategy", "network_configuration",
      "health_check_grace_period_seconds", "scheduling_strategy",
      "deployment_controller", "tags", "enable_ecsmanaged_tags",
      "propagate_tags", "enable_execute_command" }

\* every field declared Optional[...] = None
OptionalFields ==
    CreateFields \cup {"ecs_service_name", "cluster", "task_definition", "force_delete"}

\* the keyword of create_service that each field is sent as
WireName ==
    [f \in CreateFields |->
        CASE f = "load_balancers" -> "loadBalancers"
          [] f = "service_registries" -> "serviceRegistries"
          [] f = "desired_count" -> "desiredCount"
          [] f = "client_token" -> "clientToken"
          [] f = "launch_type" -> "launchType"
          [] f = "capacity_provider_strategy" -> "capacityProviderStrategy"
          [] f = "platform_version" -> "platformVersion"
          [] f = "role" -> "role"
          [] f = "deployment_configuration" -> "deploymentConfiguration"
          [] f = "placement_constraints" -> "placementConstraints"
          [] f = "placement_strategy" -> "placementStrategy"
          [] f = "network_configuration" -> "networkConfiguration"
          [] f = "health_check_grace_period_seconds" -> "healthCheckGracePeriodSeconds"
          [] f = "scheduling_strategy" -> "schedulingStrategy"
          [] f = "deployment_controller" -> "deploymentController"
          [] f = "tags" -> "tags"
          [] f = "enable_ecsmanaged_tags" -> "enableECSManagedTags"
          [] f = "propagate_tags" -> "propagateTags"
          [] f = "enable_execute_command" -> "enableExecuteCommand"]

\* the two values a set field takes in the model: the first is falsy or a
\* plain string, the second is truthy or an object
FieldValue(f, i) ==
    CASE f = "ecs_service_name" -> IF i = 1 THEN Str("") ELSE Str("api")
      [] f = "cluster" -> IF i = 1 THEN Str("prod") ELSE Obj("EcsCluster", "prod")
      [] f = "task_definition" ->
             IF i = 1 THEN Str("web:1") ELSE Obj("EcsTaskDefinition", "web")
      [] OTHER -> IF i = 1 THEN IntVal("0") ELSE IntVal("1")

\* the descriptor whose fields in set have their i-th value; name is
\* required, every other field defaults to None
Descriptor(set, i) ==
    [f \in OptionalFields \cup {"name"} |->
        IF f = "name" THEN Str("web")
        ELSE IF f \in set THEN FieldValue(f, i) ELSE None]

\* the descriptors of the model: no optional field set, one set, all set
Descriptors ==
    {Descriptor(set, i) :
        set \in {{}, OptionalFields} \cup {{f} : f \in OptionalFields},
        i \in {1, 2}}

get_ecs_service_name(d) ==
    IF Truthy(d.ecs_service_name) THEN d.ecs_service_name ELSE d.name

get_ecs_cluster_name(d) ==
    IF d.cluster # None
    THEN IF d.cluster.isa = "EcsCluster" THEN Str(d.cluster.val) ELSE d.cluster
    ELSE None

get_ecs_task_definition(d) ==
    IF d.task_definition # None
    THEN IF d.task_definition.isa = "EcsTaskDefinition"
         THEN Str(d.task_definition.val)
         ELSE d.task_definition
    ELSE None

\* not_null_args["cluster"] = cluster_name, if cluster_name is not None
cluster_arg(d) ==
    IF get_ecs_cluster_name(d) # None
    THEN "cluster" :> get_ecs_cluster_name(d)
    ELSE NoKwargs

\* the rest of _create's not_null_args: one key per field that is not None
create_not_null_args(d) ==
    LET set == {f \in CreateFields : d[f] # None}
    IN  [k \in {WireName[f] : f \in set} |->
            d[CHOOSE f \in set : WireName[f] = k]]

\* keyword arguments of create_service
create_kwargs(d) ==
    ("serviceName" :> get_ecs_service_name(d))
    @@ ("taskDefinition" :> get_ecs_task_definition(d))
    @@ cluster_arg(d) @@ create_not_null_args(d)

\* keyword arguments of describe_services (services is a one-element list)
describe_kwargs(d) ==
    ("services" :> get_ecs_service_name(d)) @@ cluster_arg(d)

\* keyword arguments of delete_service
delete_kwargs(d) ==
    ("service" :> get_ecs_service_name(d))
    @@ cluster_arg(d)
    @@ (IF d.force_delete # None THEN "force" :> d.force_delete ELSE NoKwargs)

----------------------------------------------------------------------------
(* The remote client: what a call may answer *)

\* exceptions a call raises; all but Fatal are botocore ClientErrors
Errors == {"NotFound", "AlreadyExists", "Throttled", "Fatal"}
IsClientError(e) == e \in {"NotFound", "AlreadyExists", "Throttled"}

\* n Throttled answers, then success
ThrottleRun(n) == [i \in 1..(n + 1) |-> IF i <= n THEN "Throttled" ELSE "Ok"]

\* the answers the remote holds ready for successive calls of one operation
Scripts ==
    {<<o>> : o \in Errors \cup {"Ok"}} \cup {ThrottleRun(n) : n \in 1..MaxThrottles}

\* the service descriptions a describe_services response may hold for a
\* descriptor: its own service in any status, or an ACTIVE one of another name
Services(d) ==
    {[isa |-> "dict", serviceName |-> get_ecs_service_name(d), status |-> st,
      desiredCount |-> IntVal("1")]
        : st \in {"ACTIVE", "DRAINING", "INACTIVE"}}
    \cup {[isa |-> "dict", serviceName |-> Str("other"), status |-> "ACTIVE",
           desiredCount |-> IntVal("1")]}

RECURSIVE ListsUpTo(_, _)
ListsUpTo(S, n) ==
    IF n = 0 THEN {<<>>}
    ELSE LET shorter == ListsUpTo(S, n - 1)
         IN  shorter \cup {Append(l, x) : l \in shorter, x \in S}

\* describe_services responses: the "services" entry is a list, or missing
DescribeResponses(d) ==
    {[isa |-> "dict", services |-> [isa |-> "list", items |-> l]]
        : l \in ListsUpTo(Services(d), MaxServices)}
    \cup {[isa |-> "dict"]}

\* create_service responses: a "service" entry, a null one, or none
CreateResponses(d) ==
    { [isa |-> "dict",
       service |-> [isa |-> "dict", serviceName |-> get_ecs_service_name(d),
                    status |-> "ACTIVE", desiredCount |-> IntVal("1")]],
      [isa |-> "dict", service |-> None],
      [isa |-> "dict"] }

----------------------------------------------------------------------------
(* The operations *)

\* a retry loop: call again while the answer is Throttled
RECURSIVE CallsMade_retrying(_)
CallsMade_retrying(sc) ==
    IF Head(sc) = "Throttled" /\ Len(sc) > 1
    THEN <<Head(sc)>> \o CallsMade_retrying(Tail(sc))
    ELSE <<Head(sc)>>

\* the answers an operation gets: it calls the client once, inside one try
CallsMade(sc) == <<Head(sc)>>

\* dict.get(key, default)
Get(dict, key, default) == IF key \in DOMAIN dict THEN dict[key] ELSE default

\* _create that takes "already exists" for success
create_try_tolerant(active, o, resp) ==
    IF o = "Ok"
    THEN IF Get(resp, "service", EmptyDict) # None
         THEN [active_resource |-> resp, result |-> TRUE, printed |-> FALSE]
         ELSE [active_resource |-> active, result |-> FALSE, printed |-> FALSE]
    ELSE [active_resource |-> active, result |-> (o = "AlreadyExists"),
          printed |-> TRUE]

\* _create without the validation of resource_dict
create_try_unvalidated(active, o, resp) ==
    IF o = "Ok"
    THEN [active_resource |-> resp, result |-> TRUE, printed |-> FALSE]
    ELSE [active_resource |-> active, result |-> FALSE, printed |-> TRUE]

\* _create from the answer on: o is what create_service did, resp what it
\* returned when o = "Ok"
create_try(active, o, resp) ==
    IF o = "Ok"
    THEN IF Get(resp, "service", EmptyDict) # None
         THEN [active_resource |-> resp, result |-> TRUE, printed |-> FALSE]
         ELSE [active_resource |-> active, result |-> FALSE, printed |-> FALSE]
    ELSE [active_resource |-> active, result |-> FALSE, printed |-> TRUE]

\* the loop of _read without the test of the status
RECURSIVE read_loop_any_status(_, _, _)
read_loop_any_status(items, service_name, active) ==
    IF items = <<>> THEN active
    ELSE IF Get(Head(items), "serviceName", None) = service_name
         THEN Head(items)
         ELSE read_loop_any_status(Tail(items), service_name, active)

\* the loop of _read over resource_list: the first resource of that name
\* whose status is ACTIVE is cached, and the loop breaks
RECURSIVE read_loop(_, _, _)
read_loop(items, service_name, active) ==
    IF items = <<>> THEN active
    ELSE IF /\ Get(Head(items), "serviceName", None) = service_name
            /\ Get(Head(items), "status", "None") = "ACTIVE"
         THEN Head(items)
         ELSE read_loop(Tail(items), service_name, active)

\* _read from the answer on
read_try(service_name, active, o, resp) ==
    IF o = "Ok"
    THEN LET resource_list == Get(resp, "services", None)
             cached == IF resource_list # None /\ resource_list.isa = "list"
                       THEN read_loop(resource_list.items, service_name, active)
                       ELSE active
         IN  [active_resource |-> cached, result |-> cached, printed |-> FALSE]
    ELSE [active_resource |-> active, result |-> active,
          printed |-> ~IsClientError(o)]

\* _delete that clears the cache only once delete_service has returned
delete_try_clearing_late(active, o) ==
    IF o = "Ok"
    THEN [active_resource |-> None, result |-> TRUE, printed |-> FALSE]
    ELSE [active_resource |-> active, result |-> FALSE, printed |-> TRUE]

\* _delete that takes "not found" for success
delete_try_tolerant(active, o) ==
    IF o = "Ok" \/ o = "NotFound"
    THEN [active_resource |-> None, result |-> TRUE, printed |-> FALSE]
    ELSE [active_resource |-> None, result |-> FALSE, printed |-> TRUE]

\* _delete from self.active_resource = None on: the cache as it was
\* (active) is dropped before the call, whatever the call does
delete_try(active, o) ==
    IF o = "Ok"
    THEN [active_resource |-> None, result |-> TRUE, printed |-> FALSE]
    ELSE [active_resource |-> None, result |-> FALSE, printed |-> TRUE]

Init ==
    /\ self \in Descriptors
    /\ active_resource = None
    /\ op = "init"
    /\ request = NoKwargs
    /\ script = <<>>
    /\ response = None
    /\ result = None
    /\ attempts = 0
    /\ before = None
    /\ printed = FALSE

\* what every operation that calls the client records
Called(name, kwargs, sc, resp, out) ==
    /\ op' = name
    /\ request' = kwargs
    /\ script' = sc
    /\ attempts' = Len(CallsMade(sc))
    /\ response' = resp
    /\ before' = active_resource
    /\ active_resource' = out.active_resource
    /\ result' = out.result
    /\ printed' = out.printed
    /\ UNCHANGED self

_create ==
    \E sc \in Scripts :
        LET o == CallsMade(sc)[Len(CallsMade(sc))]
        IN  \E resp \in (IF o = "Ok" THEN CreateResponses(self) ELSE {None}) :
                Called("create", create_kwargs(self), sc, resp,
                       create_try(active_resource, o, resp))

_read ==
    \E sc \in Scripts :
        LET o == CallsMade(sc)[Len(CallsMade(sc))]
        IN  \E resp \in (IF o = "Ok" THEN DescribeResponses(self) ELSE {None}) :
                Called("read", describe_kwargs(self), sc, resp,
                       read_try(get_ecs_service_name(self), active_resource, o, resp))

_delete ==
    \E sc \in Scripts :
        LET o == CallsMade(sc)[Len(CallsMade(sc))]
        IN  Called("delete", delete_kwargs(self), sc,
                   IF o = "Ok" THEN EmptyDict ELSE None, delete_try(active_resource, o))

\* _update prints and returns True; it calls nothing
_update ==
    /\ op' = "update"
    /\ request' = NoKwargs
    /\ script' = <<>>
    /\ attempts' = 0
    /\ response' = None
    /\ before' = active_resource
    /\ result' = TRUE
    /\ printed' = FALSE
    /\ UNCHANGED <<self, active_resource>>

Next == _create \/ _read \/ _delete \/ _update

Spec == Init /\ [][Next]_vars

----------------------------------------------------------------------------
(* Properties *)

\* the first answer of the remote to the last operation
FirstAnswer == IF script = <<>> THEN "none" ELSE Head(script)

Calling == op \in {"create", "read", "delete"}

\* C1: no keyword argument of a remote call carries an unset (None) value
C1_NoUnsetFieldInRequest == \A k \in DOMAIN request : request[k] # None

\* what a describe_services response shows of the service: the first
\* description of that name with status ACTIVE, or None
Observed(resp, service_name) ==
    LET resource_list == Get(resp, "services", None)
    IN  IF resource_list # None /\ resource_list.isa = "list"
        THEN read_loop(resource_list.items, service_name, None)
        ELSE None

\* C2: when _read returns, active_resource is what that describe call
\* observed (None if it raised or showed no ACTIVE service of that name)
C2_ReadRefreshesCache ==
    op = "read" => active_resource = Observed(response, get_ecs_service_name(self))

\* C3: after _delete, active_resource is None, whether delete_service
\* returned or raised
C3_DeleteInvalidatesCache == op = "delete" => active_resource = None

\* C3 witness: a _delete whose remote call raised dropped a cached snapshot
C3_Witness ==
    /\ op = "delete"
    /\ FirstAnswer # "Ok"
    /\ before # None
    /\ active_resource = None

ReadResultsOfSuccess ==
    {read_try(get_ecs_service_name(self), before, "Ok", r).result :
        r \in DescribeResponses(self)}

\* the remote call of the last operation failed: it raised, and not to
\* say that the service does not exist
RemoteFailure == FirstAnswer \in Errors \ {"NotFound"}

\* C5: the result of an operation whose remote call failed differs from
\* every result of a call that returned: False against True for _create
\* and _delete, and for _read a value no successful describe yields
C5_FailureDistinguishable ==
    (Calling /\ RemoteFailure) =>
        IF op = "read" THEN result \notin ReadResultsOfSuccess
        ELSE result = FALSE

\* the declared fields whose value differs from the observed one
DriftedFields(d, observed) ==
    {f \in CreateFields : d[f] # None /\ Get(observed, WireName[f], None) # d[f]}

\* C6: _update of a cached ACTIVE service with a drifted field issues a
\* remote call whose payload holds exactly the drifted fields
C6_UpdateSendsDrift ==
    (/\ op = "update"
     /\ Get(before, "status", "None") = "ACTIVE"
     /\ DriftedFields(self, before) # {}) =>
        /\ attempts >= 1
        /\ DOMAIN request = {WireName[f] : f \in DriftedFields(self, before)}

C9_CreateResult ==
    op = "create" =>
        /\ result = TRUE <=>
              /\ FirstAnswer = "Ok"
              /\ ~("service" \in DOMAIN response /\ response.service = None)
        /\ result = TRUE => active_resource = response
        /\ FirstAnswer # "Ok" => (result = FALSE /\ active_resource = before)

\* C9 witness: a _create whose call raised while a snapshot was cached
C9_Witness ==
    /\ op = "create"
    /\ FirstAnswer # "Ok"
    /\ before # None
    /\ result = FALSE
    /\ active_resource = before

\* C10: from an empty cache, _read returns a value other than None only
\* if it is a service description of the response with the resolved name
\* and status ACTIVE
C10_ReadOnlyActiveMatch ==
    (op = "read" /\ before = None /\ result # None) =>
        /\ FirstAnswer = "Ok"
        /\ "services" \in DOMAIN response
        /\ \E i \in 1..Len(response.services.items) :
              response.services.items[i] = result
        /\ Get(result, "serviceName", None) =
               (IF Truthy(self.ecs_service_name) THEN self.ecs_service_name
                ELSE self.name)
        /\ Get(result, "status", "None") = "ACTIVE"
        /\ active_resource = result

\* C10 witness: from an empty cache, _read skipped a DRAINING description
\* of the service and returned the ACTIVE one after it
C10_Witness ==
    /\ op = "read"
    /\ before = None
    /\ result # None
    /\ Len(response.services.items) = 2
    /\ response.services.items[1].status = "DRAINING"
    /\ response.services.items[1].serviceName = result.serviceName

====
